---- MODULE Spec2Model ----
(***************************************************************************)
(* Model of odmantic/model.py: the ModelMetaclass schema derivation run at *)
(* class-definition time, and the Model.doc / Model.parse_doc codec.       *)
(*                                                                         *)
(* Names (class names, field names, document keys) are sequences of        *)
(* one-character strings, so that startswith/endswith and the regular      *)
(* expressions of to_snake_case are computed and not looked up.            *)
(***************************************************************************)
EXTENDS Integers, Sequences, FiniteSets, TLC

\* ------------------------------------------------------------------ bounds
MaxFields == 2        \* declarations in the body of the class under test
MaxNameLen == 3       \* length of the generated class names
MaxValue == 2         \* field values are 1..MaxValue

\* --------------------------------------------------------------- characters
Upper == {"A", "B", "M", "P", "U"}
Lower == {"a", "b", "c", "d", "e", "f", "i", "l", "m", "o", "p", "r", "s", "u"}
Digit == {"1"}

\* str.lower() on one character
LowerChar(c) ==
    CASE c = "A" -> "a"
      [] c = "B" -> "b"
      [] c = "M" -> "m"
      [] c = "P" -> "p"
      [] c = "U" -> "u"
      [] OTHER -> c

\* str.lower()
lower(s) == [i \in 1..Len(s) |-> LowerChar(s[i])]

\* str.startswith / str.endswith
startswith(s, p) == Len(s) >= Len(p) /\ SubSeq(s, 1, Len(p)) = p
endswith(s, p) == Len(s) >= Len(p) /\ SubSeq(s, Len(s) - Len(p) + 1, Len(s)) = p

Dunder == <<"_", "_">>

is_valid_odm_field(name) == ~startswith(name, Dunder) /\ ~endswith(name, Dunder)

\* ------------------------------------------------------------ to_snake_case
\* end of the greedy run [a-z]* that starts at position j (j-1 if none)
RECURSIVE LowerRunEnd(_, _)
LowerRunEnd(s, j) ==
    IF j <= Len(s) /\ s[j] \in Lower THEN LowerRunEnd(s, j + 1) ELSE j - 1

\* re.sub("(.)([A-Z][a-z]+)", r"\1_\2", s), scanning from position i
RECURSIVE Sub1(_, _)
Sub1(s, i) ==
    IF i > Len(s) THEN <<>>
    ELSE IF i + 2 <= Len(s) /\ s[i + 1] \in Upper /\ s[i + 2] \in Lower
         THEN LET j == LowerRunEnd(s, i + 2)
              IN  <<s[i], "_">> \o SubSeq(s, i + 1, j) \o Sub1(s, j + 1)
         ELSE <<s[i]>> \o Sub1(s, i + 1)

\* re.sub("([a-z0-9])([A-Z])", r"\1_\2", s), scanning from position i
RECURSIVE Sub2(_, _)
Sub2(s, i) ==
    IF i > Len(s) THEN <<>>
    ELSE IF i + 1 <= Len(s) /\ s[i] \in (Lower \cup Digit) /\ s[i + 1] \in Upper
         THEN <<s[i], "_", s[i + 1]>> \o Sub2(s, i + 2)
         ELSE <<s[i]>> \o Sub2(s, i + 1)

to_snake_case(s) == lower(Sub2(Sub1(s, 1), 1))

ModelSuffix == <<"M", "o", "d", "e", "l">>

\* lines 158-161, were every trailing "Model" stripped
RECURSIVE StripEveryModel(_)
StripEveryModel(name) ==
    IF endswith(name, ModelSuffix)
    THEN StripEveryModel(SubSeq(name, 1, Len(name) - 5)) ELSE name

\* lines 158-161: strip one trailing "Model"
StripModel(name) ==
    IF endswith(name, ModelSuffix) THEN SubSeq(name, 1, Len(name) - 5) ELSE name

\* lines 157-162; explicit = [set |-> BOOLEAN, value |-> name]
CollectionName(name, explicit) ==
    IF explicit.set THEN explicit.value ELSE to_snake_case(StripModel(name))

\* ------------------------------------------------------------- field names
n_a == <<"a">>
n_b == <<"b">>
n_id == <<"i", "d">>
n_x == <<"_", "_", "x", "_", "_">>
k_k == <<"k">>
k_id == <<"_", "i", "d">>

NoKey == [set |-> FALSE, value |-> <<>>]
Key(k) == [set |-> TRUE, value |-> k]
NoCollection == [set |-> FALSE, value |-> <<>>]

\* ----------------------------------------------------- types and bound values
\* Declared annotation types: a plain type, a type of the substitution table,
\* and the schema-class in slot "R".  Values bound in the class body are
\* identified by what the isinstance / is tests of lines 88-129 see.
ClassSlots == {"R", "M"}

\* _SUBSTITUTION_TYPES.get(v), lines 75-78
SubstitutionType(t) == IF t = "Decimal" THEN "_decimalDecimal" ELSE t

\* BSONSerializedField in getattr(field_type, "__bases__", ()), line 85
HasBSONSerializedBase(t) == t = "_decimalDecimal"

\* isinstance(field_type, UNTOUCHED_TYPES) and field_type != PyObject, line 82
IsUntouchedAnnotation(t) == t = "function"

\* isinstance(value, UNTOUCHED_TYPES), line 137
IsUntouchedValue(v) == v = "Function"

\* issubclass(field_type, Model), line 106
IsModelSubclass(t) == t \in ClassSlots

\* ------------------------------------------------------------ descriptors
\* ODMField(primary_field, key_name) / ODMReference(model, key_name)
ODMField(name, primary, key_name) ==
    [name |-> name, variant |-> "Plain", key_name |-> key_name,
     primary |-> primary, model |-> "none"]
ODMReference(name, model, key_name) ==
    [name |-> name, variant |-> "Reference", key_name |-> key_name,
     primary |-> FALSE, model |-> model]

\* dict assignment d[name] = entry on an insertion-ordered dict kept as a
\* sequence of entries with a name field
DictSet(d, entry) ==
    IF \E i \in 1..Len(d) : d[i].name = entry.name
    THEN [i \in 1..Len(d) |-> IF d[i].name = entry.name THEN entry ELSE d[i]]
    ELSE Append(d, entry)

DictHas(d, name) == \E i \in 1..Len(d) : d[i].name = name
DictGet(d, name) == d[CHOOSE i \in 1..Len(d) : d[i].name = name]
DictNames(d) == {d[i].name : i \in 1..Len(d)}

\* lines 44-50
RECURSIVE FindDup(_, _, _)
FindDup(fields, i, seen) ==
    IF i > Len(fields) THEN NoKey
    ELSE IF fields[i].key_name \in seen THEN Key(fields[i].key_name)
    ELSE FindDup(fields, i + 1, seen \cup {fields[i].key_name})

\* lines 44-50, were the field names compared in place of the key names
find_duplicate_name(fields) ==
    IF \E i, j \in 1..Len(fields) : i < j /\ fields[i].name = fields[j].name
    THEN Key(fields[1].key_name) ELSE NoKey

find_duplicate_key(fields) == FindDup(fields, 1, {})

\* --------------------------------------------------------- class definition
\* A declaration of the class body:
\*   [name, annotated, type, value, primary, key, default]
\* value is the kind of object bound to the name ("Undefined" when the field
\* is declared by annotation only); primary/key are the arguments of
\* Field(...) / Reference(...); default tells whether the wrapped validation
\* field carries a default.

\* namespace.get("__annotations__", {}) in declaration order
RECURSIVE AnnotationsOf(_)
AnnotationsOf(body) ==
    IF body = <<>> THEN <<>>
    ELSE LET d == Head(body)
         IN  (IF d.annotated THEN <<[name |-> d.name, type |-> d.type]>> ELSE <<>>)
             \o AnnotationsOf(Tail(body))

\* the names the class body binds a value to, in declaration order
RECURSIVE NamespaceOf(_)
NamespaceOf(body) ==
    IF body = <<>> THEN <<>>
    ELSE LET d == Head(body)
         IN  (IF d.value # "Undefined"
              THEN <<[name |-> d.name, value |-> d.value, primary |-> d.primary,
                      key |-> d.key, default |-> d.default]>>
              ELSE <<>>)
             \o NamespaceOf(Tail(body))

\* lines 74-79
Substitute(annotations) ==
    [i \in 1..Len(annotations) |->
        [annotations[i] EXCEPT !.type = SubstitutionType(@)]]

UndefinedValue ==
    [name |-> <<>>, value |-> "Undefined", primary |-> FALSE, key |-> NoKey,
     default |-> FALSE]

\* the state of __new__ before the first loop, lines 67-70
Start(body) ==
    [err |-> "ok",
     annotations |-> Substitute(AnnotationsOf(body)),
     namespace |-> NamespaceOf(body),
     primary_field |-> NoKey,
     odm_fields |-> <<>>,
     references |-> <<>>,
     bson_serialized_fields |-> {}]

\* value.key_name if value.key_name is not None else field_name
KeyNameOf(value, field_name) == IF value.key.set THEN value.key.value ELSE field_name

\* lines 88-103
OnFieldInfo(st, field_name, value) ==
    IF value.primary /\ st.primary_field.set
    THEN [st EXCEPT !.err = "MultiplePrimaryKeys"]
    ELSE [st EXCEPT
            !.primary_field = IF value.primary THEN Key(field_name) ELSE @,
            !.odm_fields = DictSet(@, ODMField(field_name, value.primary,
                                               KeyNameOf(value, field_name))),
            !.namespace = DictSet(@, [value EXCEPT !.value = "PDFieldInfoInstance"])]

\* lines 105-117
OnReferenceInfo(st, field_name, field_type, value) ==
    IF ~IsModelSubclass(field_type)
    THEN [st EXCEPT !.err = "InvalidReference"]
    ELSE [st EXCEPT
            !.odm_fields = DictSet(@, ODMReference(field_name, field_type,
                                                   KeyNameOf(value, field_name))),
            !.references = Append(@, field_name)]

\* lines 118-129
OnOtherValue(st, field_name, value) ==
    IF value.value = "Undefined"
    THEN [st EXCEPT !.odm_fields = DictSet(@, ODMField(field_name, FALSE, field_name))]
    ELSE IF value.value = "PDFieldInfoClass"
    THEN [st EXCEPT !.err = "ForeignField"]
    ELSE [st EXCEPT !.err = "Unhandled"]

\* one iteration of the loop of lines 80-129
AnnotatedField(st, field_name, field_type) ==
    IF ~is_valid_odm_field(field_name) \/ IsUntouchedAnnotation(field_type)
    THEN st
    ELSE LET st1 == IF HasBSONSerializedBase(field_type)
                    THEN [st EXCEPT !.bson_serialized_fields = @ \cup {field_name}]
                    ELSE st
             value == IF DictHas(st.namespace, field_name)
                      THEN DictGet(st.namespace, field_name)
                      ELSE [UndefinedValue EXCEPT !.name = field_name]
         IN  IF value.value = "ODMFieldInfo" THEN OnFieldInfo(st1, field_name, value)
             ELSE IF value.value = "ODMReferenceInfo"
                  THEN OnReferenceInfo(st1, field_name, field_type, value)
             ELSE OnOtherValue(st1, field_name, value)

\* lines 80-129; a raise leaves the loop
RECURSIVE AnnotationLoop(_, _)
AnnotationLoop(st, i) ==
    IF st.err # "ok" \/ i > Len(st.annotations) THEN st
    ELSE AnnotationLoop(
            AnnotatedField(st, st.annotations[i].name, st.annotations[i].type),
            i + 1)

\* lines 131-142
RECURSIVE NamespaceLoop(_, _)
NamespaceLoop(st, i) ==
    IF st.err # "ok" \/ i > Len(st.namespace) THEN st
    ELSE LET e == st.namespace[i]
         IN  IF \/ DictHas(st.annotations, e.name)
                \/ ~is_valid_odm_field(e.name)
                \/ IsUntouchedValue(e.value)
             THEN NamespaceLoop(st, i + 1)
             ELSE NamespaceLoop(
                     [st EXCEPT !.odm_fields =
                         DictSet(@, ODMField(e.name, FALSE, e.name))],
                     i + 1)

\* namespace["id"] = PDField(default_factory=_objectId)
SynthesizedId ==
    [name |-> n_id, value |-> "PDFieldInfoInstance", primary |-> FALSE,
     key |-> NoKey, default |-> TRUE]

\* lines 143-147, were a declared field named "id" left as it is
SynthesizePrimaryKeepingId(st) ==
    IF st.err # "ok" \/ st.primary_field.set THEN st
    ELSE IF DictHas(st.odm_fields, n_id) THEN [st EXCEPT !.primary_field = Key(n_id)]
    ELSE [st EXCEPT
            !.primary_field = Key(n_id),
            !.odm_fields = DictSet(@, ODMField(n_id, TRUE, k_id)),
            !.namespace = DictSet(@, SynthesizedId),
            !.annotations = DictSet(@, [name |-> n_id, type |-> "_objectId"])]

\* lines 143-147
SynthesizePrimary(st) ==
    IF st.err # "ok" \/ st.primary_field.set THEN st
    ELSE [st EXCEPT
            !.primary_field = Key(n_id),
            !.odm_fields = DictSet(@, ODMField(n_id, TRUE, k_id)),
            !.namespace = DictSet(@, SynthesizedId),
            !.annotations = DictSet(@, [name |-> n_id, type |-> "_objectId"])]

\* lines 149-151
CheckDuplicateKey(st) ==
    IF st.err # "ok" THEN st
    ELSE IF find_duplicate_key(st.odm_fields).set
         THEN [st EXCEPT !.err = "DuplicateKey"]
         ELSE st

\* lines 56-151: the derivation up to the point where the schema is attached
Derive(body) ==
    CheckDuplicateKey(
        SynthesizePrimary(
            NamespaceLoop(AnnotationLoop(Start(body), 1), 1)))

\* ------------------------------------------------------------ the schema
\* The fields the validation engine builds from the rewritten class body
\* (super().__new__, line 164): the type is the effective annotation, and a
\* value left bound to the name is the field's default.
PdType(st, name) ==
    IF DictHas(st.annotations, name) THEN DictGet(st.annotations, name).type
    ELSE "inferred"

PdHasDefault(st, name) ==
    /\ DictHas(st.namespace, name)
    /\ LET e == DictGet(st.namespace, name)
       IN  IF e.value = "PDFieldInfoInstance" THEN e.default ELSE TRUE

\* lines 153-162: what is attached to the class
Schema(st, name, explicit) ==
    [odm_fields |-> st.odm_fields,
     references |-> st.references,
     primary_key |-> st.primary_field.value,
     bson_serialized_fields |-> st.bson_serialized_fields,
     collection |-> CollectionName(name, explicit),
     types |-> [n \in DictNames(st.odm_fields) |-> PdType(st, n)],
     defaults |-> [n \in DictNames(st.odm_fields) |-> PdHasDefault(st, n)]]

EmptyFn == [n \in {} |-> 0]

NoSchema ==
    [odm_fields |-> <<>>, references |-> <<>>, primary_key |-> <<>>,
     bson_serialized_fields |-> {}, collection |-> <<>>,
     types |-> EmptyFn, defaults |-> EmptyFn]

\* ------------------------------------------------------------------ inputs
Decl(name, annotated, type, value, primary, key, default) ==
    [name |-> name, annotated |-> annotated, type |-> type, value |-> value,
     primary |-> primary, key |-> key, default |-> default]

FieldNames == {n_a, n_b, n_id}

\* the declarations a class body is made of
DeclsOf(n) ==
    { Decl(n, TRUE, "str", "Undefined", FALSE, NoKey, FALSE),
      Decl(n, TRUE, "Decimal", "Undefined", FALSE, NoKey, FALSE),
      Decl(n, TRUE, "str", "ODMFieldInfo", TRUE, NoKey, FALSE),
      Decl(n, TRUE, "str", "ODMFieldInfo", FALSE, Key(k_k), TRUE),
      Decl(n, TRUE, "Decimal", "ODMFieldInfo", FALSE, Key(k_id), FALSE),
      Decl(n, TRUE, "R", "ODMReferenceInfo", FALSE, NoKey, FALSE),
      Decl(n, TRUE, "R", "ODMReferenceInfo", FALSE, Key(k_k), FALSE),
      Decl(n, TRUE, "str", "ODMReferenceInfo", FALSE, NoKey, FALSE),
      Decl(n, TRUE, "str", "PDFieldInfoClass", FALSE, NoKey, FALSE),
      Decl(n, TRUE, "str", "PDFieldInfoInstance", FALSE, NoKey, FALSE),
      Decl(n, TRUE, "str", "Default", FALSE, NoKey, TRUE),
      Decl(n, FALSE, "none", "ODMFieldInfo", TRUE, NoKey, FALSE),
      Decl(n, FALSE, "none", "Default", FALSE, NoKey, TRUE),
      Decl(n, FALSE, "none", "Function", FALSE, NoKey, FALSE) }

Decls ==
    UNION {DeclsOf(n) : n \in FieldNames}
    \cup { Decl(n_x, TRUE, "str", "Undefined", FALSE, NoKey, FALSE),
           Decl(n_x, FALSE, "none", "Default", FALSE, NoKey, TRUE) }

\* class bodies: sequences of at most MaxFields declarations of distinct names
DistinctNames(b) == \A i, j \in 1..Len(b) : i # j => b[i].name # b[j].name

\* the bodies of the referenced class R
TargetBodies ==
    { <<>>,
      <<Decl(n_a, TRUE, "str", "ODMFieldInfo", TRUE, NoKey, FALSE)>>,
      <<Decl(n_a, TRUE, "str", "ODMFieldInfo", TRUE, NoKey, FALSE),
        Decl(n_id, TRUE, "str", "Undefined", FALSE, NoKey, FALSE)>> }

n_User == <<"U", "s", "e", "r">>
n_UserModel == n_User \o ModelSuffix
n_UserProfile == n_User \o <<"P", "r", "o", "f", "i", "l", "e">>

SlotName(slot) == IF slot = "R" THEN n_UserModel ELSE n_UserProfile

NameAlphabet == {"A", "B", "c", "1"}

RECURSIVE NamesOfLen(_)
NamesOfLen(k) ==
    IF k = 0 THEN {<<>>}
    ELSE {Append(s, c) : s \in NamesOfLen(k - 1), c \in NameAlphabet}

ShortNames == UNION {NamesOfLen(k) : k \in 0..MaxNameLen}

NameInputs ==
    ShortNames \cup {s \o ModelSuffix : s \in ShortNames}
               \cup {s \o ModelSuffix \o ModelSuffix : s \in ShortNames}
               \cup {n_UserModel, n_UserProfile}

Explicits == {NoCollection, [set |-> TRUE, value |-> <<"A", "c">>]}

\* ------------------------------------------------------------------- values
\* A value carries a tag: "val" a plain value, "bson" a storage
\* representation made by to_bson, "inst" a nested instance, "dict" a nested
\* materialised mapping, "doc" a nested raw document.
Val(n) == [tag |-> "val", v |-> n]
Values == {Val(n) : n \in 1..MaxValue}

Extend(f, n, x) == [m \in DOMAIN f \cup {n} |-> IF m = n THEN x ELSE f[m]]

\* all mappings that give every entries[i].name a value of entries[i].set
RECURSIVE Mappings(_)
Mappings(entries) ==
    IF entries = <<>> THEN {EmptyFn}
    ELSE {Extend(f, Head(entries).name, x) :
            f \in Mappings(Tail(entries)), x \in Head(entries).set}

Ok(v) == [ok |-> TRUE, err |-> "ok", v |-> v]
Fail(e) == [ok |-> FALSE, err |-> e, v |-> EmptyFn]

\* BaseModel.dict(): nested instances are materialised to mappings
Materialize(x) ==
    [n \in DOMAIN x |-> IF x[n].tag = "inst" THEN [tag |-> "dict", v |-> x[n].v]
                        ELSE x[n]]

\* whether type_ has a to_bson operation, and the operation itself
HasToBson(t) == HasBSONSerializedBase(t)
to_bson(t, x) == [tag |-> "bson", v |-> x.v]

\* the validation of one value against a field type by parse_obj: a storage
\* representation is accepted by the type that made it and decoded
Validate(t, x) ==
    IF t \in ClassSlots
    THEN IF x.tag \in {"inst", "dict"} THEN Ok([tag |-> "inst", v |-> x.v])
         ELSE Fail("ValidationError")
    ELSE IF x.tag = "val" THEN Ok(x)
    ELSE IF x.tag = "bson" /\ HasToBson(t) THEN Ok(Val(x.v))
    ELSE Fail("ValidationError")

\* the value a default or default factory supplies
DefaultValue == Val(0)

\* cls.parse_obj(doc), line 193: a field the mapping lacks takes its default
\* and is a validation error when it has none
RECURSIVE ParseObjLoop(_, _, _, _)
ParseObjLoop(S, d, i, obj) ==
    IF i > Len(S.odm_fields) THEN Ok(obj)
    ELSE LET n == S.odm_fields[i].name
         IN  IF n \notin DOMAIN d
             THEN IF S.defaults[n]
                  THEN ParseObjLoop(S, d, i + 1, Extend(obj, n, DefaultValue))
                  ELSE Fail("ValidationError")
             ELSE LET r == Validate(S.types[n], d[n])
                  IN  IF r.ok THEN ParseObjLoop(S, d, i + 1, Extend(obj, n, r.v))
                      ELSE r

parse_obj(S, doc) == ParseObjLoop(S, doc, 1, EmptyFn)

\* Model.doc, lines 195-212
RECURSIVE DocLoop(_, _, _, _)
DocLoop(S, raw_doc, i, doc) ==
    IF i > Len(S.odm_fields) THEN Ok(doc)
    ELSE LET field == S.odm_fields[i]
             n == field.name
         IN  IF n \notin DOMAIN raw_doc THEN Fail("KeyError")
             ELSE IF field.variant = "Reference"
             THEN IF raw_doc[n].tag # "dict" THEN Fail("TypeError")
                  ELSE IF n_id \notin DOMAIN raw_doc[n].v THEN Fail("KeyError")
                  ELSE DocLoop(S, raw_doc, i + 1,
                               Extend(doc, field.key_name, raw_doc[n].v[n_id]))
             ELSE IF n \in S.bson_serialized_fields
             THEN IF ~HasToBson(S.types[n]) THEN Fail("AttributeError")
                  ELSE DocLoop(S, raw_doc, i + 1,
                               Extend(doc, field.key_name,
                                      to_bson(S.types[n], raw_doc[n])))
             ELSE DocLoop(S, raw_doc, i + 1, Extend(doc, field.key_name, raw_doc[n]))

doc(S, x) == DocLoop(S, Materialize(x), 1, EmptyFn)

\* ------------------------------------------------------------------- state
VARIABLES classes, defined, attempted, lastDef, stage, inst, encoded, rawIn, parsed

vars == <<classes, defined, attempted, lastDef, stage, inst, encoded, rawIn, parsed>>

NoResult == [ok |-> FALSE, err |-> "none", v |-> EmptyFn]

Init ==
    /\ classes = [c \in ClassSlots |-> NoSchema]
    /\ defined = {}
    /\ attempted = {}
    /\ lastDef = [slot |-> "none", name |-> <<>>, explicit |-> NoCollection,
                  body |-> <<>>, result |-> "none"]
    /\ stage = "define"
    /\ inst = EmptyFn
    /\ encoded = NoResult
    /\ rawIn = EmptyFn
    /\ parsed = NoResult

\* a class is defined once, before any instance exists, and the referenced
\* class R before the class M that refers to it
CanDefine(slot) ==
    /\ stage = "define"
    /\ slot \notin attempted
    /\ slot = "R" => "M" \notin attempted

\* ModelMetaclass.__new__, lines 55-164.  A raise leaves nothing attached;
\* otherwise super().__new__ (line 164) builds the class from the rewritten
\* body and the derived attributes.
DefineClass(slot, name, explicit, body) ==
    /\ CanDefine(slot)
    /\ LET st == Derive(body)
       IN  /\ lastDef' = [slot |-> slot, name |-> name, explicit |-> explicit,
                          body |-> body, result |-> st.err]
           /\ IF st.err = "ok"
              THEN /\ classes' = [classes EXCEPT ![slot] = Schema(st, name, explicit)]
                   /\ defined' = defined \cup {slot}
              ELSE UNCHANGED <<classes, defined>>
    /\ attempted' = attempted \cup {slot}
    /\ UNCHANGED <<stage, inst, encoded, rawIn, parsed>>

\* raw_doc.get(field.key_name, default) in place of raw_doc[field.key_name]
LookupOrDefault(raw_doc, key) ==
    IF key \in DOMAIN raw_doc THEN Ok(raw_doc[key]) ELSE Ok(DefaultValue)

\* raw_doc[field.key_name], lines 190 and 192
Lookup(raw_doc, key) ==
    IF key \in DOMAIN raw_doc THEN Ok(raw_doc[key]) ELSE Fail("KeyError")

\* Model.parse_doc, lines 186-193
RECURSIVE ParseDocLoop(_, _, _, _)
RECURSIVE parse_doc(_, _)
ParseDocLoop(c, raw_doc, i, d) ==
    IF i > Len(classes[c].odm_fields) THEN Ok(d)
    ELSE LET field == classes[c].odm_fields[i]
             x == Lookup(raw_doc, field.key_name)
         IN  IF ~x.ok THEN Fail(x.err)
             ELSE IF field.variant = "Reference"
             THEN IF x.v.tag # "doc" THEN Fail("TypeError")
                  ELSE LET r == parse_doc(field.model, x.v.v)
                       IN  IF r.ok
                           THEN ParseDocLoop(c, raw_doc, i + 1,
                                    Extend(d, field.name, [tag |-> "inst", v |-> r.v]))
                           ELSE r
             ELSE ParseDocLoop(c, raw_doc, i + 1, Extend(d, field.name, x.v))

parse_doc(c, raw_doc) ==
    LET r == ParseDocLoop(c, raw_doc, 1, EmptyFn)
    IN  IF r.ok THEN parse_obj(classes[c], r.v) ELSE r

\* the instances of class c
RECURSIVE Instances(_)
Instances(c) ==
    LET S == classes[c]
    IN  Mappings([i \in 1..Len(S.odm_fields) |->
            LET n == S.odm_fields[i].name
            IN  [name |-> n,
                 set |-> IF S.types[n] \in ClassSlots
                         THEN {[tag |-> "inst", v |-> y] : y \in Instances(S.types[n])}
                         ELSE Values]])

\* the raw documents of class c as the store holds them
RECURSIVE RawDocs(_)
RawDocs(c) ==
    LET S == classes[c]
    IN  Mappings([i \in 1..Len(S.odm_fields) |->
            LET f == S.odm_fields[i]
            IN  [name |-> f.key_name,
                 set |-> IF f.variant = "Reference"
                         THEN {[tag |-> "doc", v |-> y] : y \in RawDocs(f.model)}
                         ELSE IF f.name \in S.bson_serialized_fields
                                 /\ HasToBson(S.types[f.name])
                         THEN {to_bson(S.types[f.name], x) : x \in Values}
                         ELSE Values]])

Drop(d, k) == [m \in DOMAIN d \ {k} |-> d[m]]

WithDrops(docs) == docs \cup {Drop(d, k) : d \in docs, k \in UNION {DOMAIN e : e \in docs}}

\* Model.doc on an instance of the class defined last
ToDoc(c) ==
    /\ stage = "define"
    /\ c = lastDef.slot
    /\ c \in defined
    /\ \E x \in Instances(c) :
        /\ inst' = x
        /\ encoded' = doc(classes[c], x)
    /\ stage' = "encoded"
    /\ UNCHANGED <<classes, defined, attempted, lastDef, rawIn, parsed>>

\* Model.parse_doc on the document just encoded, or on one held by the store,
\* which may lack a key
ParseDoc(c) ==
    /\ stage \in {"define", "encoded"}
    /\ c = lastDef.slot
    /\ c \in defined
    /\ \E raw \in (IF stage = "define" THEN WithDrops(RawDocs(c))
                   ELSE IF encoded.ok THEN {encoded.v} ELSE {}) :
        /\ rawIn' = raw
        /\ parsed' = parse_doc(c, raw)
    /\ stage' = "decoded"
    /\ UNCHANGED <<classes, defined, attempted, lastDef, inst, encoded>>

\* the class R is defined for the sake of a body that names it as a type
UsesDefined(body) ==
    "R" \in defined <=> \E i \in 1..Len(body) : body[i].type = "R"

\* a class definition, over every kind of declaration
Define ==
    \/ /\ CanDefine("R")
       /\ \E body \in TargetBodies :
            DefineClass("R", SlotName("R"), NoCollection, body)
    \/ /\ CanDefine("M")
       /\ \E k \in 0..MaxFields : \E body \in [1..k -> Decls] :
            /\ DistinctNames(body)
            /\ UsesDefined(body)
            /\ DefineClass("M", SlotName("M"), NoCollection, body)

Encode == \E c \in ClassSlots : ToDoc(c)

Decode == \E c \in ClassSlots : ParseDoc(c)

Next == Define \/ Encode \/ Decode

Spec == Init /\ [][Next]_vars

\* class definition alone, over the generated class names
DefineNamed ==
    CanDefine("M") /\ \E name \in NameInputs : \E explicit \in Explicits :
        DefineClass("M", name, explicit, <<>>)

SpecName == Init /\ [][DefineNamed]_vars

\* ------------------------------------------------------------- properties
LastSchema == classes[lastDef.slot]
LastDefined == lastDef.slot \in defined

FieldIndexes(S) == 1..Len(S.odm_fields)
KeyNames(S) == {S.odm_fields[i].key_name : i \in FieldIndexes(S)}
PrimaryIndexes(S) == {i \in FieldIndexes(S) : S.odm_fields[i].primary}
ReferenceNames(S) ==
    {S.odm_fields[i].name : i \in {j \in FieldIndexes(S) : S.odm_fields[j].variant = "Reference"}}

MarkedPrimary(d) == d.value = "ODMFieldInfo" /\ d.primary

\* C1: every defined class has exactly one primary field descriptor and
\* primary_key names it; when no declaration of the body is marked primary
\* that field is the synthesized "id" with key "_id" and a default factory.
C1_OnePrimary ==
    \A c \in defined :
        LET S == classes[c]
        IN  /\ Cardinality(PrimaryIndexes(S)) = 1
            /\ \A i \in PrimaryIndexes(S) : S.odm_fields[i].name = S.primary_key
            /\ (c = lastDef.slot
                  /\ \A i \in 1..Len(lastDef.body) : ~MarkedPrimary(lastDef.body[i]))
               => /\ S.primary_key = n_id
                  /\ DictHas(S.odm_fields, n_id)
                  /\ DictGet(S.odm_fields, n_id) = ODMField(n_id, TRUE, k_id)
                  /\ S.defaults[n_id]

\* a class that declares a field named id, and no primary field, is defined
C1_Witness ==
    /\ lastDef.slot = "M" /\ LastDefined
    /\ \E i \in 1..Len(lastDef.body) : lastDef.body[i].name = n_id
    /\ \A i \in 1..Len(lastDef.body) : ~MarkedPrimary(lastDef.body[i])
    /\ Len(LastSchema.odm_fields) = 2

\* the descriptors of the body as they stand before the duplicate check
BeforeDuplicateCheck(body) ==
    SynthesizePrimary(NamespaceLoop(AnnotationLoop(Start(body), 1), 1))

SharesKey(fields) ==
    \E i, j \in 1..Len(fields) : i # j /\ fields[i].key_name = fields[j].key_name

\* C2: the key names of a defined class are pairwise distinct, and a body
\* whose descriptors end up sharing a key name is rejected with the
\* duplicate-key error and leaves no schema attached.
C2_DistinctKeys ==
    /\ \A c \in defined : ~SharesKey(classes[c].odm_fields)
    /\ lastDef.slot \in ClassSlots =>
        LET st == BeforeDuplicateCheck(lastDef.body)
        IN  /\ (st.err = "ok" /\ SharesKey(st.odm_fields))
                 => lastDef.result = "DuplicateKey"
            /\ lastDef.result = "DuplicateKey"
                 => ~LastDefined /\ LastSchema = NoSchema

\* a body in which a renamed field collides with another one is rejected
C2_Witness ==
    /\ lastDef.slot = "M" /\ lastDef.result = "DuplicateKey" /\ ~LastDefined
    /\ \E i \in 1..Len(lastDef.body) : lastDef.body[i].key.set

EncodedLast == stage = "encoded" /\ LastDefined
DecodedLast == stage = "decoded" /\ LastDefined
RoundTripped == DecodedLast /\ encoded.ok /\ rawIn = encoded.v

\* C3: for an instance x of a class without reference fields,
\* parse_doc(to_doc(x)) is an instance equal to x on every field.
C3_RoundTrip ==
    (LastDefined /\ ReferenceNames(LastSchema) = {}) =>
        /\ EncodedLast => encoded.ok
        /\ RoundTripped =>
              /\ parsed.ok
              /\ DOMAIN parsed.v = DOMAIN inst
              /\ \A n \in DOMAIN inst : parsed.v[n] = inst[n]

\* C4: to_doc(x) holds, under the key of every reference field r, the value
\* of the primary-key field of the nested instance x.r.  (A to_doc that fails
\* in the custom serialisation of another field is not this claim's case.)
C4_ReferenceKey ==
    (EncodedLast /\ encoded.err # "AttributeError") =>
        \A i \in FieldIndexes(LastSchema) :
            LET f == LastSchema.odm_fields[i]
            IN  f.variant = "Reference" =>
                  /\ encoded.ok
                  /\ encoded.v[f.key_name] = inst[f.name].v[classes[f.model].primary_key]

\* C5: to_doc(x) returns a mapping whose key set is the set of key names of
\* the class's field descriptors.
C5_KeySet ==
    EncodedLast => encoded.ok /\ DOMAIN encoded.v = KeyNames(LastSchema)

\* the declared fields whose key the decoded raw document lacks
MissingIndexes ==
    {i \in FieldIndexes(LastSchema) : LastSchema.odm_fields[i].key_name \notin DOMAIN rawIn}

HasDefault(i) == LastSchema.defaults[LastSchema.odm_fields[i].name]

\* C6 as stated: parse_doc on a raw document that lacks the key of a declared
\* field fails, unless the field has a default, and then the missing key does
\* not make it fail.
C6_FailsUnlessDefault ==
    (DecodedLast /\ MissingIndexes # {}) =>
        IF \A i \in MissingIndexes : HasDefault(i)
        THEN parsed.err # "KeyError"
        ELSE ~parsed.ok

\* C6 as amended: parse_doc on a raw document that lacks the key of a declared
\* field fails and returns no instance, whether or not the field has a
\* default.
C6_FailsOnMissingKey ==
    (DecodedLast /\ MissingIndexes # {}) => ~parsed.ok /\ parsed.v = EmptyFn

\* a document lacking only the key of a field with a default is decoded
C6_Witness ==
    /\ DecodedLast /\ MissingIndexes # {}
    /\ \A i \in MissingIndexes : HasDefault(i)
    /\ parsed.err = "KeyError"

\* C7: a body in which two fields are declared with primary_field = true is
\* rejected with the multiple-primary-keys error, with or without annotation.
C7_TwoPrimaries ==
    (lastDef.slot = "M"
       /\ Cardinality({i \in 1..Len(lastDef.body) : MarkedPrimary(lastDef.body[i])}) = 2
       /\ Len(lastDef.body) = 2)
    => lastDef.result = "MultiplePrimaryKeys"

\* the positions of s before which a word boundary lies: an uppercase letter
\* after a lowercase letter or a digit, or an uppercase letter that starts a
\* capitalised word
Boundaries(s) ==
    {i \in 2..Len(s) :
        /\ s[i] \in Upper
        /\ \/ s[i - 1] \in Lower \cup Digit
           \/ i < Len(s) /\ s[i + 1] \in Lower}

RECURSIVE Underscored(_, _)
Underscored(s, i) ==
    IF i > Len(s) THEN <<>>
    ELSE (IF i \in Boundaries(s) THEN <<"_", LowerChar(s[i])>> ELSE <<LowerChar(s[i])>>)
         \o Underscored(s, i + 1)

Stem(name) ==
    IF Len(name) >= 5 /\ SubSeq(name, Len(name) - 4, Len(name)) = ModelSuffix
    THEN SubSeq(name, 1, Len(name) - 5)
    ELSE name

\* C8: without an explicit container name the container name is the class
\* name with one trailing "Model" stripped, in lowercase with an underscore at
\* every word boundary (UserModel gives user, UserProfile gives user_profile);
\* an explicit container name is kept.
C8_Collection ==
    (lastDef.slot = "M" /\ LastDefined) =>
        IF lastDef.explicit.set
        THEN LastSchema.collection = lastDef.explicit.value
        ELSE /\ LastSchema.collection = Underscored(Stem(lastDef.name), 1)
             /\ lastDef.name = n_UserModel => LastSchema.collection = <<"u", "s", "e", "r">>
             /\ lastDef.name = n_UserProfile =>
                  LastSchema.collection =
                      <<"u", "s", "e", "r", "_", "p", "r", "o", "f", "i", "l", "e">>

\* a class named with a doubled suffix and a word boundary gets its name
C8_Witness ==
    /\ lastDef.slot = "M" /\ LastDefined /\ ~lastDef.explicit.set
    /\ lastDef.name = <<"c", "A">> \o ModelSuffix \o ModelSuffix
    /\ LastSchema.collection = <<"c", "_", "a", "_", "m", "o", "d", "e", "l">>

\* C9: references is the set of the field names whose descriptor is a
\* Reference.
C9_References ==
    \A c \in defined :
        {classes[c].references[i] : i \in 1..Len(classes[c].references)}
            = ReferenceNames(classes[c])

\* C10: an annotated field bound to a field object of the validation engine
\* makes the class definition fail with the foreign-field-configuration error.
C10_ForeignField ==
    (lastDef.slot = "M"
       /\ \E i \in 1..Len(lastDef.body) :
            /\ lastDef.body[i].annotated
            /\ lastDef.body[i].value = "PDFieldInfoInstance"
            /\ \A j \in 1..Len(lastDef.body) :
                  j # i => lastDef.body[j].annotated /\ lastDef.body[j].value = "Undefined")
    => lastDef.result = "ForeignField"

====
